---- MODULE Spec2Model ----
(***************************************************************************)
(* A model of src/runtime_src/xrt/device/hal.cpp: the HAL driver loader    *)
(* xrt::hal::loadDevices() with its helper createHalDevices(), and the     *)
(* one-time auxiliary loader xrt::hal::load_xdp().                         *)
(*                                                                         *)
(* The process environment (getenv), the file system (boost::filesystem),  *)
(* the dynamic linker (dlopen/dlsym/dlclose) and the driver libraries are  *)
(* external.  What a path holds is fixed the first time the program looks  *)
(* at it and is remembered in fs, so that later looks agree.               *)
(***************************************************************************)
EXTENDS Integers, Sequences, FiniteSets, TLC

(* ------------------------------ bounds --------------------------------- *)
\* largest device count a driver's xclProbe reports
MaxDev == 2
\* number of loadDevices() calls in one run of the process
MaxCalls == 2
\* number of threads that call load_xdp()
NumThreads == 2
\* number of load_xdp() calls each thread makes
MaxXdpCalls == 2

(* ------------------------- paths and names ----------------------------- *)
\* the value getenv() returns for a variable that is not set
NullPtr == "nullptr"

\* values XILINX_XRT takes: not set, empty, a directory, not a directory
RootValues == {NullPtr, "", "/opt/xrt", "/nodir"}

\* values xrt::config::get_hw_em_driver() / get_sw_em_driver() return
HwEmDriverValues == {"null", "/alt/hw_em.so"}
SwEmDriverValues == {"null", "/alt/sw_em.so"}

emptyOrValue(cstr) == IF cstr = NullPtr THEN "" ELSE cstr

\* bfs::path(string): a path is the sequence of the pieces it was built from
Path(str) == IF str = "" THEN <<>> ELSE <<str>>
\* bfs::path::operator/
Slash(path, rel) == path \o <<rel>>

propeFunc == "xclProbe"
versionFunc == "xclVersion"
dllExt == ".so"

\* bfs::path::extension() of the paths the program forms
Extension(path) ==
  IF path = <<>> THEN ""
  ELSE IF path[Len(path)] \in {"lib/libxrt_core.so", "lib/libxrt_aws.so",
                               "lib/libxrt_hwemu.so", "lib/libxrt_swemu.so",
                               "liboclxdp.so", "/alt/hw_em.so", "/alt/sw_em.so"}
       THEN ".so"
       ELSE ""

\* the directories of the file system that never change
IsDirectoryName(path) == path = <<"/opt/xrt">>

(* --------------------------- file system ------------------------------- *)
\* what a path holds: nothing, something that is no regular file, or a
\* regular file; a regular file is a library with its answers to dlopen,
\* dlsym("xclProbe"), xclProbe(), dlsym("xclVersion"), xclVersion(),
\* dlsym("initXDPLib")
File(kind, opens, hasProbe, probe, hasVersion, ver, hasInit) ==
  [kind |-> kind, opens |-> opens, hasProbe |-> hasProbe, probe |-> probe,
   hasVersion |-> hasVersion, version |-> ver, hasInit |-> hasInit]

Unknown == File("unknown", FALSE, FALSE, 0, FALSE, 0, FALSE)
Absent == File("absent", FALSE, FALSE, 0, FALSE, 0, FALSE)
NotRegular == File("dir", FALSE, FALSE, 0, FALSE, 0, FALSE)

\* the versions a driver's xclVersion reports
Versions == 0 .. 3

\* the libraries drivers are drawn from: one that does not open, one without
\* xclProbe, ones that probe no device, ones that probe 1 .. MaxDev devices
\* at version 2, and ones that probe a device and have no xclVersion or
\* report any of Versions
DriverLibs ==
  {File("file", FALSE, FALSE, 0, FALSE, 0, FALSE),
   File("file", TRUE, FALSE, 0, FALSE, 0, FALSE),
   File("file", TRUE, TRUE, 0, FALSE, 0, FALSE),
   File("file", TRUE, TRUE, 0, TRUE, 2, FALSE),
   File("file", TRUE, TRUE, 1, FALSE, 0, FALSE)}
  \cup {File("file", TRUE, TRUE, n, TRUE, 2, FALSE) : n \in 1 .. MaxDev}
  \cup {File("file", TRUE, TRUE, 1, TRUE, v, FALSE) : v \in Versions}

DriverPaths ==
  {Slash(Path(r), f) : r \in {"", "/opt/xrt", "/nodir"},
                        f \in {"lib/libxrt_core.so", "lib/libxrt_aws.so",
                               "lib/libxrt_hwemu.so", "lib/libxrt_swemu.so"}}
  \cup {Path(s) : s \in (HwEmDriverValues \cup SwEmDriverValues)}

\* the libraries the file liboclxdp.so is drawn from: one that does not open,
\* one without initXDPLib, one with it
XdpLibs ==
  {File("file", FALSE, FALSE, 0, FALSE, 0, FALSE),
   File("file", TRUE, FALSE, 0, FALSE, 0, FALSE),
   File("file", TRUE, FALSE, 0, FALSE, 0, TRUE)}

\* what a look at a path can find
PossibleFiles(path) ==
  IF Len(path) >= 2 /\ ~IsDirectoryName(<<path[1]>>) THEN {Absent}
  ELSE IF path = Path("null") THEN {Absent}
  ELSE IF path[Len(path)] = "lib" THEN {Absent, NotRegular}
  ELSE IF path[Len(path)] = "liboclxdp.so" THEN {Absent, NotRegular} \cup XdpLibs
  ELSE {Absent, NotRegular} \cup DriverLibs

(* ------------------------------- state --------------------------------- *)
VARIABLES
  env_XILINX_XRT,          \* getenv("XILINX_XRT")
  env_XCL_EMULATION_MODE,  \* getenv("XCL_EMULATION_MODE") != nullptr
  hw_em_driver,            \* xrt::config::get_hw_em_driver()
  sw_em_driver,            \* xrt::config::get_sw_em_driver()
  fs,                      \* what each path holds, once looked at
  val,                     \* isEmulationMode()'s static: <<>> until set, then <<b>>
  pc,                      \* where loadDevices() is
  xrt,                     \* loadDevices(): bfs::path xrt
  devices,                 \* loadDevices(): hal::device_list devices
  cand,                    \* the candidate createHalDevices() works on
  dll,                     \* createHalDevices(): dll
  count,                   \* createHalDevices(): count
  version,                 \* createHalDevices(): version
  handle,                  \* createHalDevices(): the unique_ptr (0: empty)
  handles,                 \* every handle dlopen() returned in this call
  log,                     \* what this call did to the outside, in order
  outcome,                 \* how the last call ended
  calls,                   \* loadDevices() calls started
  prev,                    \* log and outcome of the call before this one
  xdp_loaded,              \* load_xdp(): guard of the static xdp_loaded
  xpc,                     \* where each thread is in load_xdp()
  xp,                      \* xdp_once_loader(): bfs::path p
  xhandle,                 \* xdp_once_loader(): handle (0: none)
  xhandles,                \* every handle load_xdp()'s dlopen() returned
  xstat,                   \* whether an attempt failed, the threads that
                           \* waited, initXDPLib() calls entered and returned
  xres,                    \* how each thread's last load_xdp() call ended
  xcalls,                  \* load_xdp() calls each thread started
  envChanged               \* the environment was changed during the run

ldVars == <<pc, xrt, devices, cand, dll, count, version, handle, handles, log, outcome,
            calls, val, prev>>
envVars == <<env_XILINX_XRT, env_XCL_EMULATION_MODE, hw_em_driver,
             sw_em_driver>>
xdpVars == <<xdp_loaded, xpc, xp, xhandle, xhandles, xstat, xres, xcalls,
             envChanged>>
vars == <<envVars, fs, ldVars, xdpVars>>

Candidates == {"primary", "secondary", "hwemu", "swemu"}

Threads == 1 .. NumThreads

XdpPaths ==
  {Slash(Path(r), "lib") : r \in {"/opt/xrt", "/nodir"}}
  \cup {Slash(Slash(Path(r), "lib"), "liboclxdp.so") : r \in {"/opt/xrt", "/nodir"}}

Paths == DriverPaths \cup XdpPaths

NoOutcome == [kind |-> "none", error |-> "", devices |-> <<>>]

\* what the call before the running one did and how it ended, when nothing
\* was changed between the two
Finished(l, o) == [valid |-> TRUE, log |-> l, outcome |-> o]
NoPrevious == [valid |-> FALSE, log |-> <<>>, outcome |-> NoOutcome]

XdpInit ==
  /\ xdp_loaded = "uninit"
  /\ xpc = [t \in Threads |-> "idle"]
  /\ xp = [t \in Threads |-> <<>>]
  /\ xhandle = [t \in Threads |-> 0]
  /\ xhandles = <<>>
  /\ xstat = [failed |-> FALSE, waited |-> {}, initCalls |-> 0, initDone |-> 0]
  /\ xres = [t \in Threads |-> "none"]
  /\ xcalls = [t \in Threads |-> 0]
  /\ envChanged = FALSE

Init ==
  /\ env_XILINX_XRT \in RootValues
  /\ env_XCL_EMULATION_MODE \in BOOLEAN
  /\ hw_em_driver \in HwEmDriverValues
  /\ sw_em_driver \in SwEmDriverValues
  /\ fs = [p \in Paths |-> IF PossibleFiles(p) = {Absent} THEN Absent ELSE Unknown]
  /\ val = <<>>
  /\ pc = "idle"
  /\ xrt = <<>>
  /\ devices = <<>>
  /\ cand = "none"
  /\ dll = <<>>
  /\ count = 0
  /\ version = 0
  /\ handle = 0
  /\ handles = <<>>
  /\ log = <<>>
  /\ outcome = NoOutcome
  /\ calls = 0
  /\ prev = NoPrevious
  /\ XdpInit

(* ------------------------- helpers of hal.cpp -------------------------- *)
\* a look at a path: what it holds, drawn when it is not known yet
Looks(path) == IF fs[path] = Unknown THEN PossibleFiles(path) ELSE {fs[path]}

directoryOrErrorThrows(path) == ~IsDirectoryName(path)

\* isDLL(path), given what the path holds
isDLL(path, f) ==
  /\ f.kind \in {"file", "dir"}
  /\ f.kind = "file"
  /\ Extension(path) = dllExt

\* isEmulationMode without the static: the environment is read at every call
isEmulationMode_Uncached == env_XCL_EMULATION_MODE

\* isEmulationMode(): the static is set from the environment the first time
isEmulationMode == IF val = <<>> THEN env_XCL_EMULATION_MODE ELSE val[1]

Event(op, c, n) == [op |-> op, cand |-> c, n |-> n]

\* Throws with a failure that still hands out the devices gathered so far
Throws_Partial(error) ==
  /\ outcome' = [kind |-> "failed", error |-> error, devices |-> devices]
  /\ pc' = "done"
  /\ devices' = <<>>

\* a throw that leaves loadDevices(): the call fails, the list is destroyed
Throws(error) ==
  /\ outcome' = [kind |-> "failed", error |-> error, devices |-> <<>>]
  /\ pc' = "done"
  /\ devices' = <<>>

\* Returns with a list that was emptied before it is returned
Returns_Empty ==
  /\ outcome' = [kind |-> "returned", error |-> "", devices |-> <<>>]
  /\ pc' = "done"
  /\ devices' = <<>>

\* return devices
Returns ==
  /\ outcome' = [kind |-> "returned", error |-> "", devices |-> devices]
  /\ pc' = "done"
  /\ devices' = <<>>

\* the destructor of the unique_ptr: dlclose() of what it still holds
delHandle(h, hs) ==
  IF h = 0 THEN hs ELSE [hs EXCEPT ![h].closes = @ + 1]

closeEvents(h, c) == IF h = 0 THEN <<>> ELSE <<Event("dlclose", c, 0)>>

\* release as handle.get(): the unique_ptr keeps the handle
release_Get(h) == h

\* handle.release(): the unique_ptr gives the handle up
release(h) == 0

\* After with the two emulation blocks in the other order
After_Swapped(c) ==
  CASE c = "primary" -> "secondary"
    [] c = "secondary" -> "swemu"
    [] c = "swemu" -> "hwemu"
    [] c = "hwemu" -> "final"

\* the block of loadDevices() that follows a candidate
After(c) ==
  CASE c = "primary" -> "secondary"
    [] c = "secondary" -> "hwemu"
    [] c = "hwemu" -> "swemu"
    [] c = "swemu" -> "final"

(* --------------------------- createHalDevices -------------------------- *)
\* the call createHalDevices(devices, p.string()): count has its default 0
Enter(c, path) ==
  /\ pc' = "open"
  /\ cand' = c
  /\ dll' = path
  /\ count' = 0

\* Candidate with a path that is no shared library raised as an error
Candidate_Strict(c, looked, f, path) ==
  /\ fs' = [fs EXCEPT ![looked] = f]
  /\ LET valid == isDLL(path, IF path = looked THEN f ELSE fs[path])
     IN /\ log' = Append(log, Event("isDLL", c, IF valid THEN 1 ELSE 0))
        /\ IF valid
           THEN Enter(c, path) /\ UNCHANGED <<devices, outcome>>
           ELSE Throws("Library not found") /\ UNCHANGED <<cand, dll, count>>
  /\ UNCHANGED <<version, handle, handles>>

\* a candidate of loadDevices(): if (isDLL(path)) createHalDevices(...),
\* where path is looked at and holds f
Candidate(c, looked, f, path) ==
  /\ fs' = [fs EXCEPT ![looked] = f]
  /\ LET valid == isDLL(path, IF path = looked THEN f ELSE fs[path])
     IN /\ log' = Append(log, Event("isDLL", c, IF valid THEN 1 ELSE 0))
        /\ IF valid
           THEN Enter(c, path)
           ELSE pc' = After(c) /\ UNCHANGED <<cand, dll, count>>
  /\ UNCHANGED <<devices, version, handle, handles, outcome>>

\* an exception leaves createHalDevices(): the unique_ptr is destroyed, and
\* loadDevices() does not catch it
Unwind(error) ==
  /\ handles' = delHandle(handle, handles)
  /\ handle' = 0
  /\ log' = log \o closeEvents(handle, cand)
  /\ Throws(error)

\* createHalDevices() returns: the unique_ptr h is destroyed
Leave(h, hs, events) ==
  /\ handles' = delHandle(h, hs)
  /\ handle' = 0
  /\ log' = log \o events \o closeEvents(h, cand)
  /\ pc' = After(cand)

\* hal2::createDevices(devices, dll, handle, count): the adapter appends the
\* k devices it constructs to the list
hal2_createDevices(devs, c, k) == devs \o [i \in 1 .. k |-> c]

\* the numbers of devices the adapter constructs for count probed units: one
\* for each unit, or none
Constructs(n) == {0, n}

\* CHD_Open with a library that does not open skipped silently
CHD_Open_Soft ==
  /\ pc = "open"
  /\ IF ~fs[dll].opens
     THEN /\ handles' = handles
          /\ handle' = 0
          /\ log' = Append(log, Event("dlopen", cand, 0))
          /\ pc' = After(cand)
     ELSE /\ handles' = Append(handles, [cand |-> cand, dll |-> dll, closes |-> 0,
                                         transferred |-> FALSE])
          /\ handle' = Len(handles) + 1
          /\ log' = Append(log, Event("dlopen", cand, 1))
          /\ pc' = "probe"
  /\ UNCHANGED <<envVars, fs, xrt, devices, cand, dll, count, version, outcome,
                 calls, val, prev, xdpVars>>

\* auto handle = handle_type(dlopen(...)); if (!handle) throw
CHD_Open ==
  /\ pc = "open"
  /\ IF ~fs[dll].opens
     THEN /\ handles' = handles
          /\ handle' = 0
          /\ log' = Append(log, Event("dlopen", cand, 0))
          /\ Throws("Failed to open HAL driver")
     ELSE /\ handles' = Append(handles, [cand |-> cand, dll |-> dll, closes |-> 0,
                                         transferred |-> FALSE])
          /\ handle' = Len(handles) + 1
          /\ log' = Append(log, Event("dlopen", cand, 1))
          /\ pc' = "probe"
          /\ UNCHANGED <<devices, outcome>>
  /\ UNCHANGED <<envVars, fs, xrt, cand, dll, count, version, calls, val, prev, xdpVars>>

\* CHD_Probe with a library without xclProbe raised as an error
CHD_Probe_Mandatory ==
  /\ pc = "probe"
  /\ LET sym == Event("dlsym", cand, IF fs[dll].hasProbe THEN 1 ELSE 0)
     IN IF ~fs[dll].hasProbe
        THEN /\ handles' = delHandle(handle, handles)
             /\ handle' = 0
             /\ log' = log \o <<sym>> \o closeEvents(handle, cand)
             /\ Throws("xclProbe not found")
             /\ UNCHANGED count
        ELSE LET n == fs[dll].probe
                 events == <<sym, Event("xclProbe", cand, n)>>
             IN /\ count' = n
                /\ UNCHANGED <<devices, outcome>>
                /\ IF n # 0
                   THEN /\ pc' = "version"
                        /\ log' = log \o events
                        /\ UNCHANGED <<handle, handles>>
                   ELSE Leave(handle, handles, events)
  /\ UNCHANGED <<envVars, fs, xrt, cand, dll, version, calls, val, prev, xdpVars>>

\* probeFunc = dlsym(handle, "xclProbe"); if (!probeFunc) return;
\* if (count || (count = probeFunc()) || pmdCount) { ... }
CHD_Probe ==
  /\ pc = "probe"
  /\ LET sym == Event("dlsym", cand, IF fs[dll].hasProbe THEN 1 ELSE 0)
         pmdCount == 0
     IN IF ~fs[dll].hasProbe
        THEN Leave(handle, handles, <<sym>>) /\ UNCHANGED count
        ELSE LET called == (count = 0)
                 n == IF called THEN fs[dll].probe ELSE count
                 events == IF called THEN <<sym, Event("xclProbe", cand, n)>>
                           ELSE <<sym>>
             IN /\ count' = n
                /\ IF n # 0 \/ pmdCount # 0
                   THEN /\ pc' = "version"
                        /\ log' = log \o events
                        /\ UNCHANGED <<handle, handles>>
                   ELSE Leave(handle, handles, events)
  /\ UNCHANGED <<envVars, fs, xrt, devices, cand, dll, version, outcome, calls,
                 val, prev, xdpVars>>

\* versionOf with a library without xclVersion taken as version 2
versionOf_Default2(f) == IF f.hasVersion THEN f.version ELSE 2

\* auto version = 1; if (vFunc) version = vFunc();
versionOf(f) == IF f.hasVersion THEN f.version ELSE 1

\* vFunc = dlsym(handle, "xclVersion"); version = ...
CHD_Version ==
  /\ pc = "version"
  /\ version' = versionOf(fs[dll])
  /\ log' = log \o (IF fs[dll].hasVersion
                    THEN <<Event("xclVersion", cand, fs[dll].version)>>
                    ELSE <<>>)
  /\ pc' = "dispatch"
  /\ UNCHANGED <<envVars, fs, xrt, devices, cand, dll, count, handle, handles,
                 outcome, calls, val, prev, xdpVars>>

\* CHD_Dispatch with every version from 2 on given to the version-2 adapter
CHD_Dispatch_AtLeast2 ==
  /\ pc = "dispatch"
  /\ IF version = 1
     THEN Unwind("Legacy HAL version 1 not supported")
     ELSE IF version >= 2
     THEN \E k \in Constructs(count) :
            /\ devices' = hal2_createDevices(devices, cand, k)
            /\ Leave(release(handle),
                     [handles EXCEPT ![handle].transferred = TRUE],
                     <<Event("createDevices", cand, k)>>)
            /\ UNCHANGED outcome
     ELSE Unwind("HAL version not supported")
  /\ UNCHANGED <<envVars, fs, xrt, cand, dll, count, version, calls, val, prev, xdpVars>>

\* if (version==1) throw; else if (version==2) hal2::createDevices(devices,
\* dll, handle.release(), count); else throw
CHD_Dispatch ==
  /\ pc = "dispatch"
  /\ IF version = 1
     THEN Unwind("Legacy HAL version 1 not supported")
     ELSE IF version = 2
     THEN \E k \in Constructs(count) :
            /\ devices' = hal2_createDevices(devices, cand, k)
            /\ Leave(release(handle),
                     [handles EXCEPT ![handle].transferred = TRUE],
                     <<Event("createDevices", cand, k)>>)
            /\ UNCHANGED outcome
     ELSE Unwind("HAL version not supported")
  /\ UNCHANGED <<envVars, fs, xrt, cand, dll, count, version, calls, val, prev, xdpVars>>

(* ------------------------------ loadDevices ---------------------------- *)
\* LD_Call with the device list a static of loadDevices(): a call starts
\* with the list the call before it returned
LD_Call_Static ==
  /\ pc \in {"idle", "done"}
  /\ calls < MaxCalls
  /\ calls' = calls + 1
  /\ xrt' = Path(emptyOrValue(env_XILINX_XRT))
  /\ devices' = outcome.devices
  /\ pc' = "primary"
  /\ cand' = "none"
  /\ dll' = <<>>
  /\ count' = 0
  /\ version' = 0
  /\ handle' = 0
  /\ handles' = <<>>
  /\ log' = <<>>
  /\ outcome' = NoOutcome
  /\ prev' = IF pc = "done" THEN Finished(log, outcome) ELSE NoPrevious
  /\ UNCHANGED <<envVars, fs, val, xdpVars>>

\* hal::device_list devices; bfs::path xrt(emptyOrValue(getenv("XILINX_XRT")))
LD_Call ==
  /\ pc \in {"idle", "done"}
  /\ calls < MaxCalls
  /\ calls' = calls + 1
  /\ xrt' = Path(emptyOrValue(env_XILINX_XRT))
  /\ devices' = <<>>
  /\ pc' = "primary"
  /\ cand' = "none"
  /\ dll' = <<>>
  /\ count' = 0
  /\ version' = 0
  /\ handle' = 0
  /\ handles' = <<>>
  /\ log' = <<>>
  /\ outcome' = NoOutcome
  /\ prev' = IF pc = "done" THEN Finished(log, outcome) ELSE NoPrevious
  /\ UNCHANGED <<envVars, fs, val, xdpVars>>

\* LD_Primary without the test of the emulation mode
LD_Primary_Always ==
  /\ pc = "primary"
  /\ val' = IF xrt # <<>> THEN <<isEmulationMode>> ELSE val
  /\ IF xrt # <<>>
     THEN IF directoryOrErrorThrows(xrt)
          THEN /\ Throws("No such directory")
               /\ UNCHANGED <<fs, cand, dll, count, version, handle, handles, log>>
          ELSE LET p == Slash(xrt, "lib/libxrt_core.so")
               IN \E f \in Looks(p) : Candidate("primary", p, f, p)
     ELSE /\ pc' = "secondary"
          /\ UNCHANGED <<fs, devices, cand, dll, count, version, handle, handles,
                         log, outcome>>
  /\ UNCHANGED <<envVars, xrt, calls, prev, xdpVars>>

\* if (!xrt.empty() && !isEmulationMode()) { directoryOrError(xrt); ... }
LD_Primary ==
  /\ pc = "primary"
  /\ val' = IF xrt # <<>> THEN <<isEmulationMode>> ELSE val
  /\ IF xrt # <<>> /\ ~isEmulationMode
     THEN IF directoryOrErrorThrows(xrt)
          THEN /\ Throws("No such directory")
               /\ UNCHANGED <<fs, cand, dll, count, version, handle, handles, log>>
          ELSE LET p == Slash(xrt, "lib/libxrt_core.so")
               IN \E f \in Looks(p) : Candidate("primary", p, f, p)
     ELSE /\ pc' = "secondary"
          /\ UNCHANGED <<fs, devices, cand, dll, count, version, handle, handles,
                         log, outcome>>
  /\ UNCHANGED <<envVars, xrt, calls, prev, xdpVars>>

\* LD_Secondary without the test of devices.empty()
LD_Secondary_Always ==
  /\ pc = "secondary"
  /\ LET p == Slash(xrt, "lib/libxrt_aws.so")
     IN \E f \in Looks(p) : Candidate("secondary", p, f, p)
  /\ UNCHANGED <<envVars, xrt, calls, val, prev, xdpVars>>

\* LD_Secondary as a fallback of the primary only: not in emulation mode
LD_Secondary_NoEmu ==
  /\ pc = "secondary"
  /\ IF devices = <<>> /\ ~isEmulationMode
     THEN LET p == Slash(xrt, "lib/libxrt_aws.so")
          IN \E f \in Looks(p) : Candidate("secondary", p, f, p)
     ELSE /\ pc' = "hwemu"
          /\ UNCHANGED <<fs, devices, cand, dll, count, version, handle, handles,
                         log, outcome>>
  /\ UNCHANGED <<envVars, xrt, calls, val, prev, xdpVars>>

\* if (devices.empty()) { bfs::path p(xrt / "lib/libxrt_aws.so"); ... }
LD_Secondary ==
  /\ pc = "secondary"
  /\ IF devices = <<>>
     THEN LET p == Slash(xrt, "lib/libxrt_aws.so")
          IN \E f \in Looks(p) : Candidate("secondary", p, f, p)
     ELSE /\ pc' = "hwemu"
          /\ UNCHANGED <<fs, devices, cand, dll, count, version, handle, handles,
                         log, outcome>>
  /\ UNCHANGED <<envVars, xrt, calls, val, prev, xdpVars>>

\* Emulation with an emulation driver that must exist: a path that is no
\* shared library is raised as an error
Emulation_Required(c, driver, default) ==
  /\ pc = c
  /\ val' = IF xrt # <<>> THEN <<isEmulationMode>> ELSE val
  /\ IF xrt # <<>> /\ isEmulationMode
     THEN IF directoryOrErrorThrows(xrt)
          THEN /\ Throws("No such directory")
               /\ UNCHANGED <<fs, cand, dll, count, version, handle, handles, log>>
          ELSE LET p == Slash(xrt, default)
                   looked == IF driver = "null" THEN p ELSE Path(driver)
               IN \E f \in Looks(looked) :
                    LET path == IF driver = "null"
                                THEN (IF isDLL(p, f) THEN p ELSE Path(driver))
                                ELSE Path(driver)
                    IN Candidate_Strict(c, looked, f, path)
     ELSE /\ pc' = After(c)
          /\ UNCHANGED <<fs, devices, cand, dll, count, version, handle, handles,
                         log, outcome>>
  /\ UNCHANGED <<envVars, xrt, calls, prev, xdpVars>>

\* the two emulation blocks: if (!xrt.empty() && isEmulationMode()) {
\*   directoryOrError(xrt); path = get_.._em_driver();
\*   if (path == "null") { p = xrt / default; if (isDLL(p)) path = p.string(); }
\*   if (isDLL(path)) createHalDevices(devices, path); }
Emulation(c, driver, default) ==
  /\ pc = c
  /\ val' = IF xrt # <<>> THEN <<isEmulationMode>> ELSE val
  /\ IF xrt # <<>> /\ isEmulationMode
     THEN IF directoryOrErrorThrows(xrt)
          THEN /\ Throws("No such directory")
               /\ UNCHANGED <<fs, cand, dll, count, version, handle, handles, log>>
          ELSE LET p == Slash(xrt, default)
                   looked == IF driver = "null" THEN p ELSE Path(driver)
               IN \E f \in Looks(looked) :
                    LET path == IF driver = "null"
                                THEN (IF isDLL(p, f) THEN p ELSE Path(driver))
                                ELSE Path(driver)
                    IN Candidate(c, looked, f, path)
     ELSE /\ pc' = After(c)
          /\ UNCHANGED <<fs, devices, cand, dll, count, version, handle, handles,
                         log, outcome>>
  /\ UNCHANGED <<envVars, xrt, calls, prev, xdpVars>>

LD_HwEmu == Emulation("hwemu", hw_em_driver, "lib/libxrt_hwemu.so")

LD_SwEmu == Emulation("swemu", sw_em_driver, "lib/libxrt_swemu.so")

\* if (xrt.empty()) throw std::runtime_error("XILINX_XRT must be set");
\* return devices;
LD_Final ==
  /\ pc = "final"
  /\ IF xrt = <<>> THEN Throws("XILINX_XRT must be set") ELSE Returns
  /\ UNCHANGED <<envVars, fs, xrt, cand, dll, count, version, handle, handles,
                 log, calls, val, prev, xdpVars>>

\* between two calls the process changes its environment (setenv, unsetenv);
\* a run changes it once
SetEnv ==
  /\ pc = "done"
  /\ calls < MaxCalls
  /\ ~envChanged
  /\ envChanged' = TRUE
  /\ \/ /\ env_XILINX_XRT' \in RootValues \ {env_XILINX_XRT}
        /\ UNCHANGED env_XCL_EMULATION_MODE
     \/ /\ env_XCL_EMULATION_MODE' = ~env_XCL_EMULATION_MODE
        /\ UNCHANGED env_XILINX_XRT
  /\ pc' = "idle"
  /\ UNCHANGED <<hw_em_driver, sw_em_driver, fs, xrt, devices, cand, dll, count,
                 version, handle, handles, log, outcome, calls, val, prev, xdp_loaded,
                 xpc, xp, xhandle, xhandles, xstat, xres, xcalls>>

(* -------------------------------- load_xdp ----------------------------- *)
Count(field) == [xstat EXCEPT ![field] = @ + 1]

\* a thread calls load_xdp() and comes to the declaration of the static
XDP_Call(t) ==
  /\ xpc[t] = "idle"
  /\ xcalls[t] < MaxXdpCalls
  /\ xcalls' = [xcalls EXCEPT ![t] = @ + 1]
  /\ xpc' = [xpc EXCEPT ![t] = "guard"]
  /\ xres' = [xres EXCEPT ![t] = "none"]
  /\ UNCHANGED <<envVars, fs, ldVars, xdp_loaded, xp, xhandle, xhandles, xstat,
                 envChanged>>

\* XDP_Guard with a static whose initialization is not guarded against a
\* second thread: a thread that finds it running runs it too
XDP_Guard_Unguarded(t) ==
  /\ xpc[t] = "guard"
  /\ \/ /\ xdp_loaded = "done"
        /\ xpc' = [xpc EXCEPT ![t] = "idle"]
        /\ xres' = [xres EXCEPT ![t] = "returned"]
        /\ UNCHANGED <<xdp_loaded, xstat>>
     \/ /\ xdp_loaded \in {"uninit", "running"}
        /\ xdp_loaded' = "running"
        /\ xpc' = [xpc EXCEPT ![t] = "ctor"]
        /\ UNCHANGED <<xres, xstat>>
  /\ UNCHANGED <<envVars, fs, ldVars, xp, xhandle, xhandles, xcalls, envChanged>>

\* static xdp_once_loader xdp_loaded: an initialized static is passed by, an
\* uninitialized one is initialized by this thread, and a thread that finds
\* the initialization running waits for it
XDP_Guard(t) ==
  /\ xpc[t] = "guard"
  /\ \/ /\ xdp_loaded = "done"
        /\ xpc' = [xpc EXCEPT ![t] = "idle"]
        /\ xres' = [xres EXCEPT ![t] = "returned"]
        /\ UNCHANGED <<xdp_loaded, xstat>>
     \/ /\ xdp_loaded = "uninit"
        /\ xdp_loaded' = "running"
        /\ xpc' = [xpc EXCEPT ![t] = "ctor"]
        /\ UNCHANGED <<xres, xstat>>
     \/ /\ xdp_loaded = "running"
        /\ xpc' = [xpc EXCEPT ![t] = "wait"]
        /\ xstat' = [xstat EXCEPT !.waited = @ \cup {t}]
        /\ UNCHANGED <<xdp_loaded, xres>>
  /\ UNCHANGED <<envVars, fs, ldVars, xp, xhandle, xhandles, xcalls, envChanged>>

\* the waiting thread goes on when the initialization has ended
XDP_Wake(t) ==
  /\ xpc[t] = "wait"
  /\ xdp_loaded # "running"
  /\ xpc' = [xpc EXCEPT ![t] = "guard"]
  /\ UNCHANGED <<envVars, fs, ldVars, xdp_loaded, xp, xhandle, xhandles, xstat,
                 xres, xcalls, envChanged>>

\* XDP_Throws with a failed initialization that counts as done
XDP_Throws_Consumed(t) ==
  /\ xdp_loaded' = "done"
  /\ xpc' = [xpc EXCEPT ![t] = "idle"]
  /\ xstat' = [xstat EXCEPT !.failed = TRUE]
  /\ xres' = [xres EXCEPT ![t] = "thrown"]
  /\ xhandle' = [xhandle EXCEPT ![t] = 0]

\* an exception leaves the constructor: the static stays uninitialized and
\* the exception leaves load_xdp()
XDP_Throws(t) ==
  /\ xdp_loaded' = "uninit"
  /\ xpc' = [xpc EXCEPT ![t] = "idle"]
  /\ xstat' = [xstat EXCEPT !.failed = TRUE]
  /\ xres' = [xres EXCEPT ![t] = "thrown"]
  /\ xhandle' = [xhandle EXCEPT ![t] = 0]

\* xrt = getenv; if (xrt.empty()) throw; p = xrt / "lib"; directoryOrError(p)
XDP_Resolve(t) ==
  /\ xpc[t] = "ctor"
  /\ LET root == Path(emptyOrValue(env_XILINX_XRT))
         p == Slash(root, "lib")
     IN IF root = <<>>
        THEN XDP_Throws(t) /\ UNCHANGED <<fs, xp>>
        ELSE \E f \in Looks(p) :
               /\ fs' = [fs EXCEPT ![p] = f]
               /\ IF f.kind # "dir"
                  THEN XDP_Throws(t) /\ UNCHANGED xp
                  ELSE /\ xp' = [xp EXCEPT ![t] = Slash(p, "liboclxdp.so")]
                       /\ xpc' = [xpc EXCEPT ![t] = "isDLL"]
                       /\ UNCHANGED <<xdp_loaded, xstat, xres, xhandle>>
  /\ UNCHANGED <<envVars, ldVars, xhandles, xcalls, envChanged>>

\* p /= libname; if (!isDLL(p)) throw
XDP_IsDLL(t) ==
  /\ xpc[t] = "isDLL"
  /\ \E f \in Looks(xp[t]) :
       /\ fs' = [fs EXCEPT ![xp[t]] = f]
       /\ IF ~isDLL(xp[t], f)
          THEN XDP_Throws(t)
          ELSE /\ xpc' = [xpc EXCEPT ![t] = "open"]
               /\ UNCHANGED <<xdp_loaded, xstat, xres, xhandle>>
  /\ UNCHANGED <<envVars, ldVars, xp, xhandles, xcalls, envChanged>>

\* auto handle = dlopen(...); if (!handle) throw
XDP_Open(t) ==
  /\ xpc[t] = "open"
  /\ IF ~fs[xp[t]].opens
     THEN XDP_Throws(t) /\ UNCHANGED xhandles
     ELSE /\ xhandles' = Append(xhandles, [closes |-> 0])
          /\ xhandle' = [xhandle EXCEPT ![t] = Len(xhandles) + 1]
          /\ xpc' = [xpc EXCEPT ![t] = "dlsym"]
          /\ UNCHANGED <<xdp_loaded, xstat, xres>>
  /\ UNCHANGED <<envVars, fs, ldVars, xp, xcalls, envChanged>>

\* initFunc = dlsym(handle, "initXDPLib"); if (!initFunc) throw
XDP_Sym(t) ==
  /\ xpc[t] = "dlsym"
  /\ IF ~fs[xp[t]].hasInit
     THEN XDP_Throws(t)
     ELSE /\ xpc' = [xpc EXCEPT ![t] = "call"]
          /\ UNCHANGED <<xdp_loaded, xstat, xres, xhandle>>
  /\ UNCHANGED <<envVars, fs, ldVars, xp, xhandles, xcalls, envChanged>>

\* initFunc() is entered
XDP_InitCall(t) ==
  /\ xpc[t] = "call"
  /\ xstat' = Count("initCalls")
  /\ xpc' = [xpc EXCEPT ![t] = "init"]
  /\ UNCHANGED <<envVars, fs, ldVars, xdp_loaded, xp, xhandle, xhandles, xres,
                 xcalls, envChanged>>

\* initFunc() returns, the constructor ends: the static is initialized and
\* load_xdp() returns
XDP_InitReturn(t) ==
  /\ xpc[t] = "init"
  /\ xstat' = Count("initDone")
  /\ xdp_loaded' = "done"
  /\ xpc' = [xpc EXCEPT ![t] = "idle"]
  /\ xres' = [xres EXCEPT ![t] = "returned"]
  /\ UNCHANGED <<envVars, fs, ldVars, xp, xhandle, xhandles, xcalls, envChanged>>

\* while no initialization runs, the environment changes once: XILINX_XRT is
\* set or unset, or what {root}/lib or {root}/lib/liboclxdp.so holds changes
XDP_SetEnv ==
  /\ ~envChanged
  /\ envChanged' = TRUE
  /\ xdp_loaded # "running"
  /\ \/ /\ env_XILINX_XRT' \in RootValues \ {env_XILINX_XRT}
        /\ UNCHANGED fs
     \/ /\ \E p \in XdpPaths :
             /\ fs[p] # Unknown
             /\ PossibleFiles(p) # {Absent}
             /\ fs' = [fs EXCEPT ![p] = Unknown]
        /\ UNCHANGED env_XILINX_XRT
  /\ UNCHANGED <<env_XCL_EMULATION_MODE, hw_em_driver, sw_em_driver, ldVars,
                 xdp_loaded, xpc, xp, xhandle, xhandles, xstat, xres, xcalls>>

Next ==
  \/ LD_Call
  \/ LD_Primary
  \/ LD_Secondary
  \/ LD_HwEmu
  \/ LD_SwEmu
  \/ LD_Final
  \/ CHD_Open
  \/ CHD_Probe
  \/ CHD_Version
  \/ CHD_Dispatch
  \/ SetEnv

Spec == Init /\ [][Next]_vars

XdpNext ==
  \/ \E t \in Threads : XDP_Call(t)
  \/ \E t \in Threads : XDP_Guard(t)
  \/ \E t \in Threads : XDP_Wake(t)
  \/ \E t \in Threads : XDP_Resolve(t)
  \/ \E t \in Threads : XDP_IsDLL(t)
  \/ \E t \in Threads : XDP_Open(t)
  \/ \E t \in Threads : XDP_Sym(t)
  \/ \E t \in Threads : XDP_InitCall(t)
  \/ \E t \in Threads : XDP_InitReturn(t)
  \/ XDP_SetEnv

\* load_xdp() reads neither XCL_EMULATION_MODE nor the emulation drivers
XdpInit0 ==
  /\ Init
  /\ ~env_XCL_EMULATION_MODE
  /\ hw_em_driver = "null"
  /\ sw_em_driver = "null"

SpecXdp == XdpInit0 /\ [][XdpNext]_vars

(* ------------------------------- claims -------------------------------- *)
\* C1: whatever the interleaving of the threads' load_xdp() calls, initXDPLib
\* is entered at most once in the process, and a call that has returned has
\* returned after that one invocation was entered and had returned.
C1_InitExactlyOnce ==
  /\ xstat.initCalls <= 1
  /\ xstat.initDone <= xstat.initCalls
  /\ \A t \in Threads :
       xres[t] = "returned" => xstat.initCalls = 1 /\ xstat.initDone = 1

\* C1 witness: every thread has returned from a later call, one of them after
\* it had waited for the initialization another thread ran.
C1_Witness ==
  /\ \A t \in Threads : xres[t] = "returned" /\ xcalls[t] >= 2
  /\ xstat.waited # {}
  /\ xstat.initDone = 1

Ended == pc = "done"

\* the call has done op for candidate c
Did(op, c) == \E i \in 1 .. Len(log) : log[i].op = op /\ log[i].cand = c

\* the call has touched candidate c in any way
Touched(c) == \E i \in 1 .. Len(log) : log[i].cand = c

\* the adapter constructed n devices for candidate c
Constructed(c, n) ==
  \E i \in 1 .. Len(log) :
    log[i].op = "createDevices" /\ log[i].cand = c /\ log[i].n = n

PrimaryPath == Slash(xrt, "lib/libxrt_core.so")
SecondaryPath == Slash(xrt, "lib/libxrt_aws.so")

\* f is a valid driver file that probes n > 0 devices at ABI version 2
GoodDriver(f, n) ==
  /\ f.kind = "file" /\ f.opens /\ f.hasProbe
  /\ f.probe = n /\ n > 0
  /\ f.hasVersion /\ f.version = 2

\* f reports ABI version 1: its xclVersion returns 1, or it has none
ReportsVersion1(f) == ~f.hasVersion \/ f.version = 1

\* the primary driver file is absent (no valid shared library) or probes 0
PrimaryAbsentOrZero ==
  LET f == fs[PrimaryPath]
  IN \/ f.kind # "file"
     \/ f.opens /\ f.hasProbe /\ f.probe = 0

FatalErrors ==
  {"No such directory", "Failed to open HAL driver",
   "Legacy HAL version 1 not supported", "HAL version not supported",
   "XILINX_XRT must be set"}

\* C3 as stated: a call made with the install root unset or empty ends in
\* the failure "XILINX_XRT must be set".
C3_UnsetRootIsConfigurationError ==
  (Ended /\ xrt = <<>>) =>
    (outcome.kind = "failed" /\ outcome.error = "XILINX_XRT must be set")

\* C4 as stated: a call made with the install root unset fails before it
\* does anything for a candidate: no path is validated, no library opened,
\* no entry point or adapter called.
C4_UnsetRootAttemptsNothing ==
  (Ended /\ xrt = <<>>) => (outcome.kind = "failed" /\ log = <<>>)

\* C5: a handle createHalDevices opened is, once the candidate's processing
\* has finished, either closed once by the core or transferred to the
\* adapter, never both; it is transferred exactly when the library has the
\* probe entry point, a non-zero device count and version 2.
C5_HandleClosedOrTransferred ==
  \A i \in 1 .. Len(handles) :
    LET h == handles[i]
        f == fs[h.dll]
    IN /\ h.closes <= 1
       /\ ~(h.closes > 0 /\ h.transferred)
       /\ h.transferred => (f.hasProbe /\ f.probe # 0 /\ f.hasVersion /\ f.version = 2)
       /\ i # handle =>
            /\ (h.closes = 1) # h.transferred
            /\ h.transferred <=>
                 (f.hasProbe /\ f.probe # 0 /\ f.hasVersion /\ f.version = 2)

\* C5 witness: a call has ended in which one handle was transferred and
\* another one closed.
C5_Witness ==
  /\ Ended
  /\ \E i, j \in 1 .. Len(handles) :
       handles[i].transferred /\ handles[j].closes = 1 /\ ~handles[j].transferred

\* C6: emulation off, the install root a directory, the primary driver a
\* valid file probing N > 0 devices at version 2, the adapter constructing a
\* device per unit: the call returns N devices, the primary handle is not
\* closed, and nothing is done for the secondary candidate.
C6_PrimarySuffices ==
  (/\ Ended
   /\ ~isEmulationMode
   /\ IsDirectoryName(xrt)
   /\ GoodDriver(fs[PrimaryPath], fs[PrimaryPath].probe)
   /\ Constructed("primary", fs[PrimaryPath].probe))
  => (/\ outcome.kind = "returned"
      /\ Len(outcome.devices) = fs[PrimaryPath].probe
      /\ \A i \in 1 .. Len(handles) :
           handles[i].cand = "primary" =>
             handles[i].closes = 0 /\ handles[i].transferred
      /\ ~Touched("secondary"))

\* C6 witness: such a call with N = 2 has returned.
C6_Witness ==
  /\ Ended
  /\ ~isEmulationMode
  /\ IsDirectoryName(xrt)
  /\ GoodDriver(fs[PrimaryPath], 2)
  /\ Constructed("primary", 2)
  /\ outcome.kind = "returned"

C8_Version1Fails ==
  Ended =>
    \A i \in 1 .. Len(handles) :
      ReportsVersion1(fs[handles[i].dll]) =>
        /\ outcome.kind = "failed"
        /\ outcome.error = "Legacy HAL version 1 not supported"
        /\ handles[i].cand = "primary" => ~Touched("secondary")

\* C8 amended: the same for a candidate whose library also has the probe
\* entry point and a non-zero device count.
C8_Version1WithDevicesFails ==
  Ended =>
    \A i \in 1 .. Len(handles) :
      LET f == fs[handles[i].dll]
      IN (ReportsVersion1(f) /\ f.hasProbe /\ f.probe # 0) =>
           /\ outcome.kind = "failed"
           /\ outcome.error = "Legacy HAL version 1 not supported"
           /\ handles[i].closes = 1
           /\ handles[i].cand = "primary" => ~Touched("secondary")

\* C8 witness: the primary driver has no xclVersion and probes a device, and
\* the call has failed; and a call has failed on a driver whose xclVersion
\* returns 1.
C8_Witness ==
  /\ Ended
  /\ outcome.error = "Legacy HAL version 1 not supported"
  /\ \E i \in 1 .. Len(handles) :
       /\ handles[i].cand = "primary"
       /\ ~fs[handles[i].dll].hasVersion
       /\ fs[handles[i].dll].probe # 0

\* C9 as stated: no failure of a candidate aborts the pass; a call fails
\* only for an unset install root.
C9_OnlyUnsetRootAborts ==
  (Ended /\ outcome.kind = "failed") => outcome.error = "XILINX_XRT must be set"

\* C9 amended: a candidate whose path is no valid shared library, whose
\* library lacks the probe entry point or probes 0 devices adds no device
\* and the pass goes on with the block that follows; a root that is no
\* directory, a library that does not open and a version other than 2 end
\* the call in a failure, as an unset root does.
C9_SoftSkipsGoOnFatalAborts ==
  [][/\ (pc' = "done" /\ outcome'.kind = "failed") => outcome'.error \in FatalErrors
     /\ (/\ pc \in Candidates
         /\ Len(log') = Len(log) + 1
         /\ log'[Len(log')] = Event("isDLL", pc, 0))
        => (pc' = After(pc) /\ devices' = devices /\ outcome' = outcome)
     /\ (pc = "probe" /\ (~fs[dll].hasProbe \/ fs[dll].probe = 0))
        => (pc' = After(cand) /\ devices' = devices /\ outcome' = outcome)
     /\ (\/ pc = "open" /\ ~fs[dll].opens
         \/ pc = "dispatch" /\ version # 2
         \/ pc = "primary" /\ xrt # <<>> /\ ~isEmulationMode /\ ~IsDirectoryName(xrt)
         \/ pc \in {"hwemu", "swemu"} /\ xrt # <<>> /\ isEmulationMode
              /\ ~IsDirectoryName(xrt)
         \/ pc = "final" /\ xrt = <<>>)
        => (pc' = "done" /\ outcome'.kind = "failed")]_vars

\* C9 witness: the primary library lacked the probe entry point or probed
\* 0, was closed, and the call went on and returned devices of the
\* secondary candidate.
C9_Witness ==
  /\ Ended
  /\ outcome.kind = "returned"
  /\ \E i \in 1 .. Len(handles) :
       handles[i].cand = "primary" /\ handles[i].closes = 1
  /\ Len(outcome.devices) > 0
  /\ \E n \in 1 .. MaxDev : Constructed("secondary", n)

HwEmuDefault == Slash(xrt, "lib/libxrt_hwemu.so")
SwEmuDefault == Slash(xrt, "lib/libxrt_swemu.so")

\* the environment of C11: emulation on, the install root a directory, both
\* emulation drivers configured as "null", neither default emulation file a
\* shared library
NoEmulationDrivers ==
  /\ isEmulationMode
  /\ IsDirectoryName(xrt)
  /\ hw_em_driver = "null"
  /\ sw_em_driver = "null"
  /\ fs[HwEmuDefault].kind # "file"
  /\ fs[SwEmuDefault].kind # "file"

\* the secondary driver file raises an error when it is attempted: it does
\* not open, or it has devices at a version other than 2
SecondaryFatal ==
  LET f == fs[SecondaryPath]
  IN /\ f.kind = "file"
     /\ \/ ~f.opens
        \/ f.hasProbe /\ f.probe # 0 /\ ~(f.hasVersion /\ f.version = 2)

\* the devices of the list devs that candidate c contributed
From(devs, c) == SelectSeq(devs, LAMBDA d : d = c)

\* C11 as stated: in the environment NoEmulationDrivers the emulation
\* candidates open nothing, add no device and raise no error, and the call
\* returns what the secondary candidate contributed.
C11_NoEmulationDriversSucceeds ==
  (Ended /\ NoEmulationDrivers)
  => (/\ ~Did("dlopen", "hwemu") /\ ~Did("dlopen", "swemu")
      /\ outcome.kind = "returned"
      /\ outcome.devices = From(outcome.devices, "secondary"))

\* C11 amended: the same, the call returning when the secondary candidate
\* raises no error of its own; when it does, the call fails with that error
\* before the emulation candidates are looked at.
C11_NoEmulationDriversSucceedsUnlessSecondaryFails ==
  (Ended /\ NoEmulationDrivers)
  => (/\ ~Did("dlopen", "hwemu") /\ ~Did("dlopen", "swemu")
      /\ ~SecondaryFatal =>
           /\ outcome.kind = "returned"
           /\ outcome.devices = From(outcome.devices, "secondary")
           /\ \A n \in 0 .. MaxDev :
                Constructed("secondary", n) => Len(outcome.devices) = n
           /\ Did("isDLL", "hwemu") /\ Did("isDLL", "swemu")
      /\ SecondaryFatal =>
           /\ outcome.kind = "failed"
           /\ outcome.error \in {"Failed to open HAL driver",
                                 "Legacy HAL version 1 not supported",
                                 "HAL version not supported"}
           /\ ~Touched("hwemu") /\ ~Touched("swemu"))

\* C11 witness: in that environment both emulation candidates were looked at
\* and skipped, and the call returned the 2 devices of the secondary driver.
C11_Witness ==
  /\ Ended /\ NoEmulationDrivers
  /\ Did("isDLL", "hwemu") /\ Did("isDLL", "swemu")
  /\ Constructed("secondary", 2)
  /\ outcome.kind = "returned"
  /\ Len(outcome.devices) = 2

\* C13: once isEmulationMode() has been evaluated its value stays, whatever
\* XCL_EMULATION_MODE becomes: the primary candidate is touched only with
\* the kept value off and the emulation candidates only with it on; the
\* install root of a call is the value XILINX_XRT has at that call.
C13_EmulationFlagCached ==
  [][/\ val # <<>> => val' = val
     /\ (val = <<>> /\ val' # <<>>) => val' = <<env_XCL_EMULATION_MODE>>
     /\ (pc' \notin {"idle", "done"} /\ val' # <<>>) =>
          /\ Touched("primary")' => ~val'[1]
          /\ (Touched("hwemu")' \/ Touched("swemu")') => val'[1]
     /\ (pc \in {"idle", "done"} /\ pc' = "primary") =>
          xrt' = Path(emptyOrValue(env_XILINX_XRT))]_vars

\* C13 witness: XCL_EMULATION_MODE was set after a call had found it unset,
\* and the later call still attempted the primary candidate; the other way
\* round, the later call still looked at an emulation candidate.
C13_Witness ==
  /\ Ended /\ calls = 2 /\ envChanged
  /\ val = <<FALSE>> /\ env_XCL_EMULATION_MODE
  /\ Did("dlopen", "primary")

\* candidate c was skipped in negotiation: its library has no xclProbe, or
\* its xclProbe returned 0
SoftSkipped(c) ==
  \E i \in 1 .. Len(log) :
    /\ log[i].cand = c /\ log[i].n = 0
    /\ log[i].op \in {"dlsym", "xclProbe"}

\* the candidates that come after c in loadDevices()
Later(c) ==
  CASE c = "primary" -> {"secondary", "hwemu", "swemu"}
    [] c = "secondary" -> {"hwemu", "swemu"}
    [] c = "hwemu" -> {"swemu"}
    [] c = "swemu" -> {}

\* C14: the step that finds xclProbe missing, or gets 0 from it, raises
\* nothing, leaves the device list as it is, closes the handle once without
\* handing it on, and goes on with the block after the candidate; neither
\* xclVersion nor the adapter is called for that candidate. A skipped primary
\* is followed by the secondary, and with emulation on in an existing root a
\* skipped secondary by the hardware emulation and a skipped hardware
\* emulation by the software emulation.
C14_SoftSkip ==
  /\ [][(pc = "probe" /\ (~fs[dll].hasProbe \/ fs[dll].probe = 0)) =>
          /\ pc' = After(cand)
          /\ devices' = devices
          /\ outcome' = NoOutcome
          /\ handle' = 0
          /\ handles'[handle].closes = 1
          /\ ~handles'[handle].transferred
          /\ SoftSkipped(cand)']_vars
  /\ [](\A c \in Candidates :
          SoftSkipped(c) =>
            /\ ~Did("xclVersion", c) /\ ~Did("createDevices", c)
            /\ ~\E i \in 1 .. Len(devices) : devices[i] = c)
  /\ [](Ended =>
          /\ SoftSkipped("primary") => Did("isDLL", "secondary")
          /\ (SoftSkipped("secondary") /\ val = <<TRUE>> /\ IsDirectoryName(xrt))
               => Did("isDLL", "hwemu")
          /\ (SoftSkipped("hwemu") /\ outcome.error # "No such directory")
               => Did("isDLL", "swemu"))

\* C14 witness: the primary library has no xclProbe, the secondary library
\* was then attempted and gave the devices the call returned.
C14_Witness ==
  /\ Ended
  /\ \E i \in 1 .. Len(log) : log[i] = Event("dlsym", "primary", 0)
  /\ Did("dlclose", "primary")
  /\ Constructed("secondary", 1)
  /\ outcome.kind = "returned" /\ Len(outcome.devices) = 1

\* C15: a library that passed isDLL and does not open ends the call with the
\* open error; the failed dlopen is the last thing the call did, so no later
\* candidate is looked at.
C15_OpenFailureIsFatal ==
  \A i \in 1 .. Len(log) :
    (log[i].op = "dlopen" /\ log[i].n = 0) =>
      /\ i = Len(log)
      /\ i > 1 /\ log[i - 1] = Event("isDLL", log[i].cand, 1)
      /\ pc \in {"done", "idle"}
      /\ outcome.kind = "failed"
      /\ outcome.error = "Failed to open HAL driver"
      /\ \A c \in Later(log[i].cand) : ~Touched(c)

\* C15 witness: the secondary library, a regular .so file, failed to open in
\* emulation mode, and the call failed.
C15_Witness ==
  /\ Ended
  /\ val = <<TRUE>>
  /\ \E i \in 1 .. Len(log) : log[i] = Event("dlopen", "secondary", 0)
  /\ outcome.kind = "failed"

\* C16: with the install root set, the step after the primary block looks at
\* the secondary path exactly when the device list is empty, and opens the
\* secondary library exactly when in addition that path is a shared library,
\* whatever the emulation mode is. In emulation mode the primary candidate is
\* not touched, and the secondary path is the first thing the call looks at,
\* before any emulation candidate.
C16_SecondaryIffEmpty ==
  /\ [][(pc = "secondary" /\ xrt # <<>>) =>
          /\ (devices = <<>>) <=> Did("isDLL", "secondary")'
          /\ (devices = <<>> /\ isDLL(SecondaryPath, fs'[SecondaryPath]))
               <=> (pc' = "open" /\ cand' = "secondary")
          /\ devices # <<>> => (pc' = "hwemu" /\ log' = log)]_vars
  /\ []((val = <<TRUE>> /\ xrt # <<>> /\ pc \notin {"primary", "secondary"}) =>
          /\ ~Touched("primary")
          /\ log # <<>> /\ log[1].op = "isDLL" /\ log[1].cand = "secondary")

\* C16 witness: in emulation mode the primary was left out, the secondary
\* library gave a device, and the hardware emulation candidate was looked at
\* after it.
C16_Witness ==
  /\ Ended
  /\ val = <<TRUE>> /\ xrt # <<>>
  /\ ~Touched("primary")
  /\ Constructed("secondary", 1)
  /\ Did("isDLL", "hwemu")
  /\ outcome.kind = "returned"

\* C17: a call never touches both the primary candidate and an emulation
\* candidate: the primary is touched only with the emulation mode off, the
\* emulation candidates only with it on. With the install root an existing
\* directory and the emulation mode on, each emulation block looks at its
\* candidate whatever the device list holds.
C17_PrimaryXorEmulation ==
  /\ [](/\ ~(Touched("primary") /\ (Touched("hwemu") \/ Touched("swemu")))
        /\ Touched("primary") => val = <<FALSE>>
        /\ (Touched("hwemu") \/ Touched("swemu")) => val = <<TRUE>>)
  /\ [][\A c \in {"hwemu", "swemu"} :
          (pc = c /\ xrt # <<>> /\ isEmulationMode /\ ~directoryOrErrorThrows(xrt))
            => (Did("isDLL", c)' /\ devices' = devices)]_vars

\* C17 witness: in emulation mode the secondary library gave 2 devices and
\* the hardware emulation library was opened all the same and gave another.
C17_Witness ==
  /\ Ended
  /\ val = <<TRUE>>
  /\ Constructed("secondary", 2)
  /\ Did("dlopen", "hwemu")
  /\ Constructed("hwemu", 1)
  /\ ~Touched("primary")
  /\ outcome.kind = "returned" /\ Len(outcome.devices) = 3

UnsupportedVersionErrors ==
  {"Legacy HAL version 1 not supported", "HAL version not supported"}

\* C18: xclProbe is called only with the hinted count 0; the version step is
\* reached only from the probe step with a count that is not 0, so xclVersion
\* is called only after an xclProbe of the same library that returned more
\* than 0; the dispatch step calls the adapter exactly when the version is 2
\* and raises an unsupported-version error, with the handle closed and no
\* adapter call, for every other version; the adapter is called only right
\* after an xclVersion that returned 2.
C18_NegotiationOrder ==
  /\ [][/\ (pc = "probe" /\ Did("xclProbe", cand)') => count = 0
        /\ pc' = "version" => (pc = "probe" /\ count' # 0 /\ count' = fs[dll].probe)
        /\ pc' = "dispatch" => pc = "version"
        /\ pc = "dispatch" =>
             /\ (version = 2) <=> Did("createDevices", cand)'
             /\ version # 2 =>
                  /\ outcome'.kind = "failed"
                  /\ outcome'.error \in UnsupportedVersionErrors
                  /\ handles'[handle].closes = 1
                  /\ ~handles'[handle].transferred]_vars
  /\ [](\A i \in 1 .. Len(log) :
          /\ log[i].op = "xclVersion" =>
               \E j \in 1 .. i - 1 :
                 /\ log[j].op = "xclProbe" /\ log[j].cand = log[i].cand
                 /\ log[j].n > 0
          /\ log[i].op = "createDevices" =>
               i > 1 /\ log[i - 1] = Event("xclVersion", log[i].cand, 2)
          /\ (log[i].op = "xclProbe" /\ log[i].n = 0) =>
               ~Did("xclVersion", log[i].cand))

\* C18 witness: a library that probed a device reported version 3: the call
\* failed with the unsupported-version error and the adapter was not called.
C18_Witness ==
  /\ Ended
  /\ \E c \in Candidates :
       /\ \E i \in 1 .. Len(log) : log[i] = Event("xclProbe", c, 1)
       /\ \E i \in 1 .. Len(log) : log[i] = Event("xclVersion", c, 3)
       /\ ~Did("createDevices", c)
  /\ outcome.kind = "failed"
  /\ outcome.error = "HAL version not supported"

\* the place of a candidate in the discovery order: the primary and the
\* secondary never both contribute
Rank(c) ==
  CASE c \in {"primary", "secondary"} -> 1
    [] c = "hwemu" -> 2
    [] c = "swemu" -> 3

IsPrefix(a, b) == Len(a) <= Len(b) /\ SubSeq(b, 1, Len(a)) = a

\* C19: the list a call returns has the devices of the primary or secondary
\* candidate first, then those of the hardware emulation, then those of the
\* software emulation; and every step of a call that does not throw keeps
\* the devices gathered so far, in their order, as the head of the list.
C19_DiscoveryOrder ==
  /\ [](\A i, j \in 1 .. Len(devices) :
          i < j => Rank(devices[i]) <= Rank(devices[j]))
  /\ []((Ended /\ outcome.kind = "returned") =>
          /\ \A i, j \in 1 .. Len(outcome.devices) :
               i < j => Rank(outcome.devices[i]) <= Rank(outcome.devices[j])
          /\ ~(\E i, j \in 1 .. Len(outcome.devices) :
                 outcome.devices[i] = "primary" /\ outcome.devices[j] = "secondary"))
  /\ [][(pc \notin {"idle", "done"} /\ outcome'.kind # "failed") =>
          IsPrefix(devices, IF pc' = "done" THEN outcome'.devices ELSE devices')]_vars

\* C19 witness: the call returned a secondary device, then a hardware
\* emulation device, then a software emulation device.
C19_Witness ==
  /\ Ended
  /\ outcome.kind = "returned"
  /\ outcome.devices = <<"secondary", "hwemu", "swemu">>

\* C20: when load_xdp() attempts have failed and none is running (the static
\* is uninitialized), every handle the attempts opened has been closed. The constructor keeps the handle in a raw pointer and throws
\* without dlclose when initXDPLib is missing, so this does not hold.
C20_FailedLoadClosesHandle ==
  (xdp_loaded = "uninit" /\ xstat.failed)
  => \A i \in 1 .. Len(xhandles) : xhandles[i].closes >= 1

\* the numbers of devices the adapter constructed for candidate c in the
\* call with log l
AdapterAnswers(l, c) ==
  {l[i].n : i \in {j \in 1 .. Len(l) : l[j].op = "createDevices" /\ l[j].cand = c}}

\* the adapter answered the same in the call before and in this call, for
\* every candidate it was called for in both
SameAnswers ==
  \A c \in Candidates :
    (AdapterAnswers(prev.log, c) # {} /\ AdapterAnswers(log, c) # {})
      => AdapterAnswers(prev.log, c) = AdapterAnswers(log, c)

\* the candidates the call with log l looked at, in order
Attempted(l) == [i \in 1 .. Len(l) |-> l[i].cand]

\* C12: a call that follows another with nothing changed between them (the
\* environment, the files, what the drivers and the adapter answer) does
\* what that call did, in the same order, and ends as it ended: the same
\* list of devices per candidate, or the same error.
C12_RepeatedCallSameOutcome ==
  (Ended /\ prev.valid /\ SameAnswers)
  => /\ log = prev.log
     /\ Attempted(log) = Attempted(prev.log)
     /\ outcome = prev.outcome
     /\ \A c \in Candidates :
          Len(From(outcome.devices, c)) = Len(From(prev.outcome.devices, c))

\* C12 witness: the second of two calls, nothing changed between them, opened
\* the secondary and the hardware emulation library as the first did and
\* returned the same three devices.
C12_Witness ==
  /\ Ended /\ prev.valid /\ calls = 2
  /\ SameAnswers
  /\ Constructed("secondary", 2) /\ Constructed("hwemu", 1)
  /\ outcome.kind = "returned" /\ Len(outcome.devices) = 3
  /\ prev.outcome = outcome

====
